---- MODULE Spec2Model ----
(***************************************************************************)
(* Model of the ESG dashboard script src/app.py: the data-source loader    *)
(* (sample data, Excel upload, CSV upload, URL), the filter/projection of  *)
(* one category table, and the KPI loop with its goal status.              *)
(*                                                                         *)
(* Representation.  A column or metric name is a sequence of text pieces   *)
(* whose concatenation is the Python string, so that `"Usage" in metric`,  *)
(* DataFrame.filter(like=...) and str.endswith are computed on the name    *)
(* (Contains, EndsWith) and never looked up in a table.  A DataFrame is a  *)
(* record [columns, rows]; every row is a sequence aligned with columns.   *)
(* Cell values are integers (the program's are floats; the percent change  *)
(* is kept as an exact fraction, see Trend).                               *)
(***************************************************************************)
EXTENDS Integers, Sequences, FiniteSets, TLC

VARIABLES
    pc,                 \* position of the script run
    data_source,        \* st.selectbox "Data Source"
    uploaded_file,      \* st.file_uploader result (NoFile when falsy)
    url,                \* st.text_input result
    remote,             \* what the URL serves at this moment (environment)
    changes,            \* how often the remote changed during this load
    responses,          \* the responses requests.get returned so far, in order
    sheet_reads,        \* the sheets pd.read_excel parsed so far, in order
    env_data,
    soc_data,
    gov_data,
    targets,
    bound,              \* which of the four names are assigned in the script
    errors,             \* the st.error messages shown so far
    faults,             \* every failure met while loading, caught or not
    exception,          \* the exception that ended the script run, or "none"
    data_period,
    section,            \* st.selectbox "Category"
    time_period,        \* st.slider "Months to Show"
    selected_metrics,   \* st.multiselect "Metrics to Show"
    filtered_df,
    kpis                \* the KPI cards displayed so far, in order

vars == <<pc, data_source, uploaded_file, url, remote, changes, responses,
          sheet_reads, env_data, soc_data, gov_data, targets, bound, errors,
          faults, exception, data_period, section, time_period,
          selected_metrics, filtered_df, kpis>>

(***************************************************************************)
(* Bounds of the model.                                                    *)
(***************************************************************************)
\* How often the remote file may change while one URL load is running.
MaxRemoteChanges == 1
\* The longest metric selection the multiselect is driven to.
MaxSelected == 3

(***************************************************************************)
(* Python / pandas helpers.                                                *)
(***************************************************************************)
Min(a, b) == IF a <= b THEN a ELSE b
Max(a, b) == IF a >= b THEN a ELSE b

Range(s) == {s[i] : i \in DOMAIN s}

\* Python `sub in s` on the pieces of a name.
Contains(s, sub) ==
    \E i \in 0..(Len(s) - Len(sub)) :
        \A j \in 1..Len(sub) : s[i + j] = sub[j]

\* Python s.endswith(suffix).
EndsWith(s, suffix) ==
    /\ Len(s) >= Len(suffix)
    /\ \A j \in 1..Len(suffix) : s[Len(s) - Len(suffix) + j] = suffix[j]

\* Missing cell of a sheet (pandas NaN): a value no target takes.
NaN == 999999

\* A number of the program (a float or an int) is held in units of 1/Scale.
Scale == 1000

\* The rows of a file written in whole numbers, in units of 1/Scale.  The
\* column `label` holds dates or names, not numbers.
InUnits(rows, label) ==
    [i \in DOMAIN rows |->
        [j \in DOMAIN rows[i] |->
            IF j = label THEN rows[i][j]
            ELSE IF rows[i][j] = NaN THEN NaN
            ELSE rows[i][j] * Scale]]

Date == <<"Date">>
Metric == <<"Metric">>
Environmental == <<"Environmental">>
Social == <<"Social">>
Governance == <<"Governance">>

Sections == <<"Environmental", "Social", "Governance">>

NoTable == [columns |-> <<>>, rows |-> <<>>]
EmptyDict == [m \in {} |-> 0]
NoTargets == [Environmental |-> EmptyDict, Social |-> EmptyDict, Governance |-> EmptyDict]

HasColumn(df, c) == \E i \in DOMAIN df.columns : df.columns[i] = c

\* Position of the first column named c.
ColumnIndex(df, c) ==
    CHOOSE i \in DOMAIN df.columns :
        /\ df.columns[i] = c
        /\ \A j \in 1..(i - 1) : df.columns[j] # c

\* How many columns of df are named c (a selection can repeat a label).
ColumnCount(df, c) == Cardinality({i \in DOMAIN df.columns : df.columns[i] = c})

\* df[labels]: the columns with these labels, in the order asked.
Project(df, labels) ==
    LET at == [k \in DOMAIN labels |-> ColumnIndex(df, labels[k])]
        rows == df.rows
    IN  [columns |-> labels,
         rows |-> [r \in DOMAIN rows |-> [k \in DOMAIN labels |-> rows[r][at[k]]]]]

\* df.filter(like=like, axis=1): the columns whose name contains `like`.
FilterLike(df, like) ==
    LET keep == SelectSeq([i \in DOMAIN df.columns |-> i],
                          LAMBDA i : Contains(df.columns[i], like))
    IN  [columns |-> [k \in DOMAIN keep |-> df.columns[keep[k]]],
         rows |-> [r \in DOMAIN df.rows |->
                      [k \in DOMAIN keep |-> df.rows[r][keep[k]]]]]

\* left.join(df[label]): the column is appended after the columns of left.
JoinColumn(left, df, label) ==
    LET at == ColumnIndex(df, label)
    IN  [columns |-> Append(left.columns, label),
         rows |-> [r \in DOMAIN left.rows |-> Append(left.rows[r], df.rows[r][at])]]

\* df.tail(n): the last n rows, in their order.
TailHead(df, n) ==
    [columns |-> df.columns,
     rows |-> SubSeq(df.rows, 1, Min(n, Len(df.rows)))]
DfTail(df, n) ==
    [columns |-> df.columns,
     rows |-> SubSeq(df.rows, Max(1, Len(df.rows) - n + 1), Len(df.rows))]

\* list(df.columns[1:])
ColumnsFrom1(df) ==
    IF Len(df.columns) = 0 THEN <<>> ELSE Tail(df.columns)


(***************************************************************************)
(* generate_synthetic_data.  The metric names, the targets and the values  *)
(* are the program's: np.random.seed(42) fixes every draw, so each column  *)
(* is the same list on every call.  A number is held in thousandths        *)
(* (Scale), a float rounded to the nearest thousandth; the Date column     *)
(* holds the index of the month end.                                       *)
(***************************************************************************)
\* len(pd.date_range("2023-01-01", "2025-03-31", freq="M"))
NumDates == 27

\* np.random.normal(1200, 150, len(dates)).cumsum() / 1000
CO2Emissions ==
    << 1275, 2454, 3751, 5179, 6344, 7509, 8946, 10261, 11391,
       12672, 13803, 14933, 16169, 17082, 18023, 19139, 20187, 21434,
       22498, 23486, 24906, 26072, 27282, 28269, 29387, 30603, 31631 >>

\* np.random.normal(4500, 400, len(dates)).cumsum() / 1000
EnergyConsumption ==
    << 4650, 8910, 13293, 17553, 22794, 27288, 31365, 36194, 40206,
       44789, 48505, 52474, 57053, 61848, 66417, 70871, 75250, 79159,
       83371, 87687, 92609, 97247, 101042, 105671, 110017, 114246, 118991 >>

\* np.random.normal(32000, 2500, len(dates)).cumsum() / 1000
WaterUsage ==
    << 34577, 68906, 98808, 130035, 162863, 197302, 228104, 259640, 288874,
       317883, 351915, 387305, 419125, 453634, 486538, 516925, 549829, 585674,
       617584, 653496, 678946, 713001, 745219, 776471, 808701, 835732, 867183 >>

\* np.clip(np.random.normal(78, 5, len(dates)), 0, 100)
WasteRecycled ==
    << 79786, 85389, 75409, 73958, 75491, 82577, 79644, 75351, 80566,
       78485, 82843, 74490, 76362, 76039, 70682, 79481, 79305, 78026,
       76827, 70923, 75897, 76286, 73989, 77194, 80020, 87431, 78873 >>

\* np.clip(np.random.normal(65, 8, len(dates)), 0, 100)
SustainableMaterials ==
    << 67060, 64404, 49650, 64788, 65482, 84706, 63461, 67412, 64722,
       55651, 74143, 71015, 71328, 57725, 76222, 53785, 69695, 82524,
       57076, 60470, 65797, 60972, 52595, 65549, 56502, 68789, 57645 >>

\* np.random.poisson(0.8, len(dates)).cumsum()
SafetyIncidents ==
    << 1000, 1000, 1000, 3000, 5000, 6000, 6000, 9000, 9000,
       13000, 13000, 13000, 15000, 15000, 16000, 16000, 17000, 18000,
       19000, 19000, 21000, 22000, 22000, 22000, 22000, 22000, 23000 >>

\* np.random.normal(2500, 300, len(dates)).cumsum() / 1000
EmployeeTraining ==
    << 2965, 5548, 8296, 10800, 13736, 16157, 19473, 22160, 24403,
       26582, 29227, 31660, 34374, 37016, 39494, 41740, 43786, 46152,
       48909, 51473, 53599, 56151, 58767, 61001, 63548, 66065, 68222 >>

\* np.clip(np.random.normal(32, 3, len(dates)), 0, 100)
DiversityWomen ==
    << 33073, 33682, 35249, 35161, 27867, 29187, 33545, 33541, 33545,
       43558, 33713, 35407, 34862, 33954, 31054, 34277, 29682, 31290,
       30544, 32246, 38944, 26398, 34059, 27162, 30584, 35267, 32193 >>

\* np.random.normal(150000, 20000, len(dates)).cumsum() / 1000
CommunityInvestment ==
    << 128445, 264139, 427731, 563124, 717453, 868364, 1005332, 1198211, 1360890,
       1470387, 1624116, 1760880, 1927929, 2062078, 2209784, 2369883, 2537198, 2663192,
       2806502, 2947004, 3083937, 3269246, 3427346, 3552128, 3720485, 3912928, 4083578 >>

\* np.clip(np.random.normal(75, 5, len(dates)), 0, 100)
WorkerSatisfaction ==
    << 67403, 72579, 81335, 71462, 77219, 78873, 70365, 74702, 58794,
       69878, 73737, 68761, 83162, 67849, 72800, 75654, 82206, 67821,
       80816, 75051, 70092, 77311, 75995, 71999, 75349, 73073, 75568 >>

\* np.clip(np.random.normal(95, 4, len(dates)), 0, 100)
EthicsTraining ==
    << 97649, 100000, 90049, 100000, 87192, 94393, 97353, 96124, 92509,
       94168, 93028, 92643, 98398, 96428, 92228, 98598, 96229, 98251,
       97519, 91684, 92759, 97989, 97441, 94916, 95469, 100000, 92634 >>

\* np.random.poisson(2.5, len(dates)).cumsum()
SupplierAudits ==
    << 5000, 7000, 11000, 13000, 18000, 23000, 24000, 27000, 28000,
       30000, 31000, 31000, 33000, 35000, 40000, 41000, 44000, 45000,
       46000, 47000, 52000, 55000, 56000, 59000, 64000, 67000, 71000 >>

\* np.clip(np.random.normal(45, 3, len(dates)), 0, 100)
BoardDiversity ==
    << 42481, 43202, 38628, 43423, 42723, 45451, 46025, 50629, 47851,
       43269, 42305, 46476, 41039, 50494, 48538, 43592, 39861, 49062,
       44656, 48713, 40217, 43202, 45016, 45141, 43650, 46869, 41797 >>

\* np.random.poisson(0.2, len(dates)).cumsum()
ComplianceViolations ==
    << 1000, 1000, 1000, 1000, 1000, 1000, 1000, 1000, 1000,
       1000, 2000, 2000, 3000, 3000, 3000, 3000, 3000, 3000,
       3000, 3000, 3000, 3000, 3000, 3000, 3000, 4000, 4000 >>

\* np.clip(np.random.normal(85, 5, len(dates)), 0, 100)
TransparencyScore ==
    << 84288, 82566, 91672, 89908, 86654, 84926, 88982, 83593, 76677,
       84969, 87016, 90613, 77794, 84385, 84623, 79494, 87438, 88737,
       83547, 95275, 83403, 82767, 82622, 80923, 82205, 77830, 84042 >>

SynEnvColumns ==
    << Date,
       <<"CO2 ", "Emissions", " (tons)">>,
       <<"Energy Consumption (MWh)">>,
       <<"Water ", "Usage", " (m3)">>,
       <<"Waste Recycled (%)">>,
       <<"Sustainable Materials (%)">> >>

SynSocColumns ==
    << Date,
       <<"Safety Incidents">>,
       <<"Employee Training (hours)">>,
       <<"Diversity (% women)">>,
       <<"Community Investment ($)">>,
       <<"Worker Satisfaction (score)">> >>

SynGovColumns ==
    << Date,
       <<"Ethics Training (%)">>,
       <<"Supplier Audits">>,
       <<"Board Diversity (%)">>,
       <<"Compliance ", "Violations">>,
       <<"Transparency Score">> >>

SynEnvRow(i) ==
    <<i, CO2Emissions[i], EnergyConsumption[i], WaterUsage[i], WasteRecycled[i],
      SustainableMaterials[i]>>
SynSocRow(i) ==
    <<i, SafetyIncidents[i], EmployeeTraining[i], DiversityWomen[i],
      CommunityInvestment[i], WorkerSatisfaction[i]>>
SynGovRow(i) ==
    <<i, EthicsTraining[i], SupplierAudits[i], BoardDiversity[i],
      ComplianceViolations[i], TransparencyScore[i]>>

SynEnv == [columns |-> SynEnvColumns, rows |-> [i \in 1..NumDates |-> SynEnvRow(i)]]
SynSoc == [columns |-> SynSocColumns, rows |-> [i \in 1..NumDates |-> SynSocRow(i)]]
SynGov == [columns |-> SynGovColumns, rows |-> [i \in 1..NumDates |-> SynGovRow(i)]]

\* A dict given by its items, in order (a later item overrides an earlier one).
DictOf(items) ==
    [m \in {items[i][1] : i \in DOMAIN items} |->
        items[CHOOSE i \in DOMAIN items :
                 /\ items[i][1] = m
                 /\ \A j \in (i + 1)..Len(items) : items[j][1] # m][2]]

SynTargets ==
    [Environmental |-> DictOf(<< <<SynEnvColumns[2], 1 * Scale>>,
                                 <<SynEnvColumns[3], 4 * Scale>>,
                                 <<SynEnvColumns[4], 30 * Scale>>,
                                 <<SynEnvColumns[5], 85 * Scale>>,
                                 <<SynEnvColumns[6], 75 * Scale>> >>),
     Social |-> DictOf(<< <<SynSocColumns[2], 0 * Scale>>, <<SynSocColumns[3], 3 * Scale>>,
                          <<SynSocColumns[4], 40 * Scale>>, <<SynSocColumns[5], 200 * Scale>>,
                          <<SynSocColumns[6], 80 * Scale>> >>),
     Governance |-> DictOf(<< <<SynGovColumns[2], 100 * Scale>>, <<SynGovColumns[3], 30 * Scale>>,
                              <<SynGovColumns[4], 50 * Scale>>, <<SynGovColumns[5], 0 * Scale>>,
                              <<SynGovColumns[6], 90 * Scale>> >>)]

(***************************************************************************)
(* The inputs: files a user uploads or a URL serves.                       *)
(***************************************************************************)
RequiredSheets == <<"Environmental", "Social", "Governance", "Targets">>

NoFile == [kind |-> "none", sheets |-> <<>>, ver |-> 0, targets_ok |-> TRUE, csv |-> 0]
Garbage == [kind |-> "garbage", sheets |-> <<>>, ver |-> 0, targets_ok |-> TRUE, csv |-> 0]
Workbook(sheets, ver, ok) ==
    [kind |-> "xlsx", sheets |-> sheets, ver |-> ver, targets_ok |-> ok, csv |-> 0]
CsvFile(k) == [kind |-> "csv", sheets |-> <<>>, ver |-> 0, targets_ok |-> TRUE, csv |-> k]

\* Two versions of a user's workbook.  The sheets have different lengths;
\* version 2 has a Social sheet with a header and no rows.
UserSheet(ver, name) ==
    IF ver = 1 THEN
        CASE name = "Environmental" ->
                [columns |-> <<Date, <<"CO2 ", "Emissions">>, <<"Water usage">>, <<"Noise">>>>,
                 rows |-> InUnits(<< <<1, 5, 3, 7>>, <<2, 4, 0, 7>>, <<3, 2, 6, 9>> >>, 1)]
          [] name = "Social" ->
                [columns |-> <<Date, <<"Safety Incidents">>, <<"Training">>>>,
                 rows |-> InUnits(<< <<2, 1, 10>>, <<3, 0, 15>> >>, 1)]
          [] OTHER ->
                [columns |-> <<Date, <<"Compliance ", "Violations">>, <<"Audits">>>>,
                 rows |-> InUnits(<< <<1, 0, 2>>, <<2, 1, 2>>, <<3, 1, 4>>, <<4, 3, 8>> >>, 1)]
    ELSE
        CASE name = "Environmental" ->
                [columns |-> <<Date, <<"CO2 ", "Emissions">>, <<"Water usage">>, <<"Noise">>>>,
                 rows |-> InUnits(<< <<1, 8, 2, 1>>, <<2, 9, 1, 0>> >>, 1)]
          [] name = "Social" ->
                [columns |-> <<Date, <<"Safety Incidents">>, <<"Training">>>>,
                 rows |-> << >>]
          [] OTHER ->
                [columns |-> <<Date, <<"Compliance ", "Violations">>, <<"Audits">>>>,
                 rows |-> InUnits(<< <<1, 2, 5>>, <<2, 2, 3>> >>, 1)]

\* The Targets sheet: one category column populated per row.  "Noise" and
\* "Audits" have no row.  A malformed sheet lacks the Social column.
TargetsSheet(ver, ok) ==
    IF ok THEN
        [columns |-> <<Metric, Environmental, Social, Governance>>,
         rows |-> InUnits(<< << <<"CO2 ", "Emissions">>, 3 * ver, NaN, NaN >>,
                             << <<"Water usage">>, 4, NaN, NaN >>,
                             << <<"Safety Incidents">>, NaN, 0, NaN >>,
                             << <<"Training">>, NaN, 12, NaN >>,
                             << <<"Compliance ", "Violations">>, NaN, NaN, ver >> >>, 1)]
    ELSE
        [columns |-> <<Metric, Environmental, Governance>>,
         rows |-> InUnits(<< << <<"CO2 ", "Emissions">>, 3, NaN >>,
                             << <<"Compliance ", "Violations">>, NaN, 1 >> >>, 1)]

NotesSheet == [columns |-> << <<"Note">> >>, rows |-> <<>>]

SheetTable(file, name) ==
    CASE name = "Targets" -> TargetsSheet(file.ver, file.targets_ok)
      [] name = "Notes" -> NotesSheet
      [] OTHER -> UserSheet(file.ver, name)

\* The workbooks: every choice of required sheets.  A workbook that lacks a
\* required sheet carries a sheet "Notes" (a workbook has at least one sheet).
SheetsOf(present) ==
    LET kept == SelectSeq(RequiredSheets, LAMBDA s : s \in present)
    IN  IF Len(kept) = Len(RequiredSheets) THEN kept ELSE Append(kept, "Notes")

FullWorkbooks ==
    {Workbook(RequiredSheets, v, ok) : v \in {1, 2}, ok \in BOOLEAN}

PartialWorkbooks ==
    {Workbook(SheetsOf(p), 1, TRUE) : p \in (SUBSET Range(RequiredSheets)) \ {Range(RequiredSheets)}}

Workbooks == FullWorkbooks \cup PartialWorkbooks

\* The delimited files.  1: the columns Date, Environmental_X, Social_Y.
\* 2: several columns per category, Date not first, and a Social column
\* whose name mentions another category.  3: the text "404: Not Found"
\* (one column, no rows, no Date).
CsvTable(k) ==
    CASE k = 1 ->
            [columns |-> <<Date, <<"Environmental", "_", "X">>, <<"Social", "_", "Y">>>>,
             rows |-> InUnits(<< <<1, 10, 20>>, <<2, 12, 18>> >>, 1)]
      [] k = 2 ->
            [columns |-> << <<"Environmental", "_", "CO2 ", "Emissions">>,
                            <<"Environmental", "_", "Water ", "Usage">>,
                            Date,
                            <<"Social", "_", "Environmental", " Awareness">>,
                            <<"Governance", "_", "Compliance ", "Violations">>,
                            <<"Governance", "_", "Audits">> >>,
             rows |-> InUnits(<< <<4, 0, 1, 50, 0, 1>>, <<5, 9, 2, 55, 0, 2>>,
                                <<3, 7, 3, 60, 1, 4>> >>, 3)]
      [] OTHER ->
            [columns |-> << <<"404: Not Found">> >>, rows |-> <<>>]

CsvFiles == {CsvFile(k) : k \in 1..3}

ExcelUploads == {NoFile, Garbage} \cup Workbooks
CsvUploads == {NoFile, Garbage} \cup CsvFiles

\* pd.read_csv: a table, or an exception.
ReadCsvOk(file) == file.kind = "csv"
ReadCsv(file) == CsvTable(file.csv)

\* pd.ExcelFile / pd.read_excel: open the workbook, or an exception.
OpenExcelOk(file) == file.kind = "xlsx"
SheetNames(file) == file.sheets


(***************************************************************************)
(* The loader (the sidebar's data-source branches).  Each branch is given  *)
(* as the outcome of running it: the names it assigned, what it showed,    *)
(* and the exception that escaped it, if any.                              *)
(***************************************************************************)
AllNames == {"env_data", "soc_data", "gov_data", "targets"}

Msg(text, names) == [text |-> text, names |-> names]

Outcome(env, soc, gov, tg, bnd, errs, flts, exc, period, reads) ==
    [env_data |-> env, soc_data |-> soc, gov_data |-> gov, targets |-> tg,
     bound |-> bnd, errors |-> errs, faults |-> flts, exception |-> exc,
     data_period |-> period, sheet_reads |-> reads]

\* env_data, soc_data, gov_data, targets = generate_synthetic_data()
Synthetic(errs, flts, period, reads) ==
    Outcome(SynEnv, SynSoc, SynGov, SynTargets, AllNames, errs, flts, "none", period, reads)

\* An exception that no handler catches: the script run ends where it is.
Escaped(env, soc, gov, bnd, errs, flts, exc, reads) ==
    Outcome(env, soc, gov, NoTargets, bnd, errs, flts, exc, "", reads)

\* required_sheets that are not in xl.sheet_names, in the order required.
MissingSheets(sheet_names) ==
    SelectSeq(RequiredSheets, LAMBDA s : s \notin Range(sheet_names))

\* targets_df[targets_df[cat].notna()].set_index('Metric')[cat].to_dict()
TargetsDictOk(tdf, cat) == HasColumn(tdf, cat) /\ HasColumn(tdf, Metric)
TargetsDict(tdf, cat) ==
    LET c == ColumnIndex(tdf, cat)
        m == ColumnIndex(tdf, Metric)
        kept == SelectSeq(tdf.rows, LAMBDA r : r[c] # NaN)
    IN  DictOf([i \in DOMAIN kept |-> <<kept[i][m], kept[i][c]>>])

TargetsOk(tdf) ==
    /\ TargetsDictOk(tdf, Environmental)
    /\ TargetsDictOk(tdf, Social)
    /\ TargetsDictOk(tdf, Governance)
TargetsOf(tdf) ==
    [Environmental |-> TargetsDict(tdf, Environmental),
     Social |-> TargetsDict(tdf, Social),
     Governance |-> TargetsDict(tdf, Governance)]

\* data.filter(like=cat, axis=1).join(data['Date'])
SplitByPrefix(data, cat) == JoinColumn(FilterLike(data, cat), data, Date)

\* data_source == "Sample Data"
SampleBranch == Synthetic(<<>>, <<>>, "Q1 2023 - Q1 2025 (Sample Data)", <<>>)

\* data_source == "Upload Excel": the whole branch runs inside try/except.
ExcelBranch(file) ==
    LET fallback == "Q1 2023 - Q1 2025 (Sample Fallback)"
        missing == MissingSheets(SheetNames(file))
        tdf == SheetTable(file, "Targets")
    IN  IF file.kind = "none" THEN
            Synthetic(<<>>, <<>>, fallback, <<>>)
        ELSE IF ~OpenExcelOk(file) THEN
            Synthetic(<<Msg("Error with Excel file: {}. Using sample data.", <<"BadZipFile">>)>>,
                      <<"BadZipFile">>, fallback, <<>>)
        ELSE IF missing # <<>> THEN
            Synthetic(<<Msg("Missing sheets: {}. Using sample data instead.", missing)>>,
                      <<"MissingSheets">>, fallback, <<>>)
        ELSE IF ~TargetsOk(tdf) THEN
            Synthetic(<<Msg("Error with Excel file: {}. Using sample data.", <<"KeyError">>)>>,
                      <<"KeyError">>, fallback, RequiredSheets)
        ELSE
            Outcome(SheetTable(file, "Environmental"), SheetTable(file, "Social"),
                    SheetTable(file, "Governance"), TargetsOf(tdf), AllNames,
                    <<>>, <<>>, "none", "Custom (Your Uploaded Data)", RequiredSheets)

\* The split of a delimited table, shared by "Upload CSV" and the URL branch.
\* No handler encloses it.
CsvSplit(data, errs, period) ==
    IF ~HasColumn(data, Date) THEN
        Escaped(NoTable, NoTable, NoTable, {}, errs, <<"KeyError">>, "KeyError", <<>>)
    ELSE
        Outcome(SplitByPrefix(data, Environmental), SplitByPrefix(data, Social),
                SplitByPrefix(data, Governance), SynTargets, AllNames,
                errs, <<>>, "none", period, <<>>)

\* data_source == "Upload CSV"
CsvBranch(file) ==
    IF file.kind = "none" THEN
        Synthetic(<<>>, <<>>, "Q1 2023 - Q1 2025 (Sample Fallback)", <<>>)
    ELSE IF ~ReadCsvOk(file) THEN
        Escaped(NoTable, NoTable, NoTable, {}, <<>>, <<"ParserError">>, "ParserError", <<>>)
    ELSE
        CsvSplit(ReadCsv(file), <<>>, "Custom (Your Uploaded Data)")


(***************************************************************************)
(* The URL branch.  requests.get is called once in load_data_from_url and  *)
(* once more for every use of the workbook; the remote can change between  *)
(* two calls.                                                              *)
(***************************************************************************)
RemoteDown == [up |-> FALSE, status |-> 0, body |-> NoFile]
Serving(status, body) == [up |-> TRUE, status |-> status, body |-> body]

\* What a URL can serve: any file with status 200, some bodies with an error
\* status, or nothing (the request raises).
ErrorBodies == {CsvFile(1), CsvFile(3), Workbook(RequiredSheets, 1, TRUE)}
Remotes ==
    {RemoteDown}
    \cup {Serving(200, b) : b \in Workbooks \cup CsvFiles \cup {Garbage}}
    \cup {Serving(404, b) : b \in ErrorBodies}

Urls ==
    { <<>>,
      <<"https://host/esg", ".csv">>,
      <<"https://host/esg", ".xlsx">>,
      <<"https://host/esg", ".xls">>,
      <<"https://host/esg", ".txt">> }

IsCsvUrl(u) == EndsWith(u, <<".csv">>)
IsExcelUrl(u) == EndsWith(u, <<".xlsx">>) \/ EndsWith(u, <<".xls">>)

\* load_data_from_url(url) on the response `resp`: the DataFrame it returns or
\* None, the message it shows, and the sheet it parsed.
LoadDataFromUrl(u, resp) ==
    LET none(text, why) ==
            [ok |-> FALSE, df |-> NoTable, errors |-> <<Msg(text, <<why>>)>>,
             faults |-> <<why>>, reads |-> <<>>]
    IN  IF ~resp.up THEN
            none("Error loading data from URL: {}", "ConnectionError")
        ELSE IF IsCsvUrl(u) THEN
            IF ReadCsvOk(resp.body)
            THEN [ok |-> TRUE, df |-> ReadCsv(resp.body), errors |-> <<>>,
                  faults |-> <<>>, reads |-> <<>>]
            ELSE none("Error loading data from URL: {}", "ParserError")
        ELSE IF IsExcelUrl(u) THEN
            IF OpenExcelOk(resp.body)
            THEN [ok |-> TRUE, df |-> SheetTable(resp.body, SheetNames(resp.body)[1]),
                  errors |-> <<>>, faults |-> <<>>,
                  reads |-> <<SheetNames(resp.body)[1]>>]
            ELSE none("Error loading data from URL: {}", "BadZipFile")
        ELSE
            none("Unsupported file format from URL. Please use CSV or Excel.", "Unsupported")


(***************************************************************************)
(* The script run as a state machine.                                      *)
(***************************************************************************)
UrlSteps == {"url_fetch", "url_open", "url_env", "url_soc", "url_gov", "url_targets"}

viewVars == <<section, time_period, selected_metrics, filtered_df, kpis>>
inputVars == <<data_source, uploaded_file, url>>
envVars == <<remote, changes>>

Init ==
    /\ pc = "start"
    /\ data_source = "Sample Data"
    /\ uploaded_file = NoFile
    /\ url = <<>>
    /\ remote = RemoteDown
    /\ changes = 0
    /\ responses = <<>>
    /\ sheet_reads = <<>>
    /\ env_data = NoTable
    /\ soc_data = NoTable
    /\ gov_data = NoTable
    /\ targets = NoTargets
    /\ bound = {}
    /\ errors = <<>>
    /\ faults = <<>>
    /\ exception = "none"
    /\ data_period = ""
    /\ section = "Environmental"
    /\ time_period = 0
    /\ selected_metrics = <<>>
    /\ filtered_df = NoTable
    /\ kpis = <<>>

\* The branch ended: its assignments, its messages, and where the run is now.
Finish(o) ==
    /\ env_data' = o.env_data
    /\ soc_data' = o.soc_data
    /\ gov_data' = o.gov_data
    /\ targets' = o.targets
    /\ bound' = o.bound
    /\ errors' = errors \o o.errors
    /\ faults' = faults \o o.faults
    /\ exception' = o.exception
    /\ data_period' = o.data_period
    /\ sheet_reads' = sheet_reads \o o.sheet_reads
    /\ pc' = IF o.exception = "none" THEN "loaded" ELSE "crashed"

\* An exception escapes a step of the URL branch: what was assigned stays.
Crash(exc) ==
    /\ exception' = exc
    /\ faults' = Append(faults, exc)
    /\ pc' = "crashed"
    /\ UNCHANGED <<env_data, soc_data, gov_data, targets, bound, errors,
                   data_period, sheet_reads>>

LoadSample ==
    /\ pc = "start"
    /\ data_source' = "Sample Data"
    /\ Finish(SampleBranch)
    /\ UNCHANGED <<uploaded_file, url, responses, envVars, viewVars>>

LoadExcel(file) ==
    /\ pc = "start"
    /\ data_source' = "Upload Excel"
    /\ uploaded_file' = file
    /\ Finish(ExcelBranch(file))
    /\ UNCHANGED <<url, responses, envVars, viewVars>>

LoadCsv(file) ==
    /\ pc = "start"
    /\ data_source' = "Upload CSV"
    /\ uploaded_file' = file
    /\ Finish(CsvBranch(file))
    /\ UNCHANGED <<url, responses, envVars, viewVars>>

\* data_source == "URL": the text input holds u while the remote serves r.
UrlBegin(u, r) ==
    /\ pc = "start"
    /\ data_source' = "URL"
    /\ url' = u
    /\ remote' = r
    /\ changes' = 0
    /\ IF u = <<>>
       THEN Finish(Synthetic(<<>>, <<>>, "Q1 2023 - Q1 2025 (Sample Fallback)", <<>>))
       ELSE /\ pc' = "url_fetch"
            /\ UNCHANGED <<env_data, soc_data, gov_data, targets, bound, errors,
                           faults, exception, data_period, sheet_reads>>
    /\ UNCHANGED <<uploaded_file, responses, viewVars>>

\* data = load_data_from_url(url), and the delimited case of the branch.
UrlFetch ==
    /\ pc = "url_fetch"
    /\ responses' = Append(responses, remote)
    /\ LET got == LoadDataFromUrl(url, remote)
       IN  IF ~got.ok THEN
               Finish(Synthetic(got.errors, got.faults,
                                "Q1 2023 - Q1 2025 (Sample Fallback)", <<>>))
           ELSE IF IsCsvUrl(url) THEN
               Finish(CsvSplit(got.df, <<>>, "Custom (URL Data)"))
           ELSE
               /\ pc' = "url_open"
               /\ sheet_reads' = sheet_reads \o got.reads
               /\ UNCHANGED <<env_data, soc_data, gov_data, targets, bound, errors,
                              faults, exception, data_period>>
    /\ UNCHANGED <<inputVars, envVars, viewVars>>

\* xl = pd.ExcelFile(io.BytesIO(requests.get(url).content)) and the sheet check.
UrlOpenExcel ==
    /\ pc = "url_open"
    /\ responses' = Append(responses, remote)
    /\ IF ~remote.up THEN Crash("ConnectionError")
       ELSE IF ~OpenExcelOk(remote.body) THEN Crash("BadZipFile")
       ELSE LET missing == MissingSheets(SheetNames(remote.body))
            IN  IF missing # <<>>
                THEN Finish(Synthetic(<<Msg("Missing sheets in URL Excel: {}", missing)>>,
                                      <<"MissingSheets">>, "Custom (URL Data)", <<>>))
                ELSE /\ pc' = "url_env"
                     /\ UNCHANGED <<env_data, soc_data, gov_data, targets, bound, errors,
                                    faults, exception, data_period, sheet_reads>>
    /\ UNCHANGED <<inputVars, envVars, viewVars>>

\* pd.read_excel(io.BytesIO(requests.get(url).content), sheet_name=name)
ReadSheetFails(resp, name) ==
    IF ~resp.up THEN "ConnectionError"
    ELSE IF ~OpenExcelOk(resp.body) THEN "BadZipFile"
    ELSE IF name \notin Range(SheetNames(resp.body)) THEN "ValueError"
    ELSE "none"

UrlReadEnv ==
    /\ pc = "url_env"
    /\ responses' = Append(responses, remote)
    /\ LET exc == ReadSheetFails(remote, "Environmental")
       IN  IF exc # "none" THEN Crash(exc)
           ELSE /\ env_data' = SheetTable(remote.body, "Environmental")
                /\ bound' = bound \cup {"env_data"}
                /\ sheet_reads' = Append(sheet_reads, "Environmental")
                /\ pc' = "url_soc"
                /\ UNCHANGED <<soc_data, gov_data, targets, errors, faults,
                               exception, data_period>>
    /\ UNCHANGED <<inputVars, envVars, viewVars>>

UrlReadSoc ==
    /\ pc = "url_soc"
    /\ responses' = Append(responses, remote)
    /\ LET exc == ReadSheetFails(remote, "Social")
       IN  IF exc # "none" THEN Crash(exc)
           ELSE /\ soc_data' = SheetTable(remote.body, "Social")
                /\ bound' = bound \cup {"soc_data"}
                /\ sheet_reads' = Append(sheet_reads, "Social")
                /\ pc' = "url_gov"
                /\ UNCHANGED <<env_data, gov_data, targets, errors, faults,
                               exception, data_period>>
    /\ UNCHANGED <<inputVars, envVars, viewVars>>

UrlReadGov ==
    /\ pc = "url_gov"
    /\ responses' = Append(responses, remote)
    /\ LET exc == ReadSheetFails(remote, "Governance")
       IN  IF exc # "none" THEN Crash(exc)
           ELSE /\ gov_data' = SheetTable(remote.body, "Governance")
                /\ bound' = bound \cup {"gov_data"}
                /\ sheet_reads' = Append(sheet_reads, "Governance")
                /\ pc' = "url_targets"
                /\ UNCHANGED <<env_data, soc_data, targets, errors, faults,
                               exception, data_period>>
    /\ UNCHANGED <<inputVars, envVars, viewVars>>

\* targets_df = pd.read_excel(..., sheet_name="Targets"), the targets dict,
\* and data_period = "Custom (URL Data)".
UrlReadTargets ==
    /\ pc = "url_targets"
    /\ responses' = Append(responses, remote)
    /\ LET exc == ReadSheetFails(remote, "Targets")
           tdf == SheetTable(remote.body, "Targets")
       IN  IF exc # "none" THEN Crash(exc)
           ELSE IF ~TargetsOk(tdf) THEN
                /\ exception' = "KeyError"
                /\ faults' = Append(faults, "KeyError")
                /\ sheet_reads' = Append(sheet_reads, "Targets")
                /\ pc' = "crashed"
                /\ UNCHANGED <<env_data, soc_data, gov_data, targets, bound, errors,
                               data_period>>
           ELSE /\ targets' = TargetsOf(tdf)
                /\ bound' = bound \cup {"targets"}
                /\ sheet_reads' = Append(sheet_reads, "Targets")
                /\ data_period' = "Custom (URL Data)"
                /\ pc' = "loaded"
                /\ UNCHANGED <<env_data, soc_data, gov_data, errors, faults, exception>>
    /\ UNCHANGED <<inputVars, envVars, viewVars>>

\* The file behind the URL is replaced, or the host goes away or comes back,
\* while the branch is between two requests.
RemoteChange(r) ==
    /\ pc \in UrlSteps
    /\ changes < MaxRemoteChanges
    /\ r # remote
    /\ remote' = r
    /\ changes' = changes + 1
    /\ UNCHANGED <<pc, inputVars, responses, sheet_reads, env_data, soc_data,
                   gov_data, targets, bound, errors, faults, exception,
                   data_period, viewVars>>

(***************************************************************************)
(* The view: category, window and metric controls, the filter, the KPIs.   *)
(***************************************************************************)
\* data_dict[section]
DataDict(sec) ==
    CASE sec = "Environmental" -> env_data
      [] sec = "Social" -> soc_data
      [] OTHER -> gov_data

\* The options of the multiselect: list(<table of the section>.columns[1:]).
MetricOptions(sec) == ColumnsFrom1(DataDict(sec))

\* What the multiselect can return: options, each at most once, in the order
\* the user picked them.
IsSelection(s, options) ==
    /\ Len(s) <= MaxSelected
    /\ \A i \in DOMAIN s : s[i] \in Range(options)
    /\ \A i, j \in DOMAIN s : i # j => s[i] # s[j]
Selections(options) ==
    {s \in UNION {[1..n -> Range(options)] : n \in 0..MaxSelected} :
        IsSelection(s, options)}

\* The window sizes the slider allows: st.slider(.., 1, len(env_data), ..).
WindowSizes == 1..Len(env_data.rows)

\* data_dict[section].tail(time_period)[['Date'] + selected_metrics]
Filter(sec, tp, sel) == Project(DfTail(DataDict(sec), tp), <<Date>> \o sel)

\* filtered_df[metric].iloc[i] for a label that names one column.
Cell(df, metric, r) == df.rows[r][ColumnIndex(df, metric)]

\* ((latest - first) / first * 100) if first != 0 else 0, as a fraction.
Trend(latest_value, first_value) ==
    IF first_value # 0
    THEN [num |-> (latest_value - first_value) * 100, den |-> first_value]
    ELSE [num |-> 0, den |-> 1]

\* targets.get(section, {}).get(metric, 0)
TargetValue(tg, sec, metric) ==
    IF sec \in DOMAIN tg /\ metric \in DOMAIN tg[sec] THEN tg[sec][metric] ELSE 0

\* "Emissions" in metric or "Usage" in metric or "Violations" in metric
LowerIsBetterNoUsage(metric) ==
    \/ Contains(metric, <<"Emissions">>)
    \/ Contains(metric, <<"Violations">>)
LowerIsBetter(metric) ==
    \/ Contains(metric, <<"Emissions">>)
    \/ Contains(metric, <<"Usage">>)
    \/ Contains(metric, <<"Violations">>)

\* display_kpi_card's status: "met" is the check mark, "not met" the warning sign.
Status(metric, value, target) ==
    IF \/ (value <= target /\ LowerIsBetter(metric))
       \/ (value >= target /\ ~LowerIsBetter(metric))
    THEN "met" ELSE "not met"

\* One pass of the KPI loop over a metric the view holds once, in a view
\* with rows.
FirstValue(df, sec, metric) == Cell(df, metric, 1)
Kpi(df, sec, metric, tg) ==
    LET latest_value == Cell(df, metric, Len(df.rows))
        first_value == FirstValue(df, sec, metric)
        target_value == TargetValue(tg, sec, metric)
    IN  [metric |-> metric,
         value |-> latest_value,
         target |-> target_value,
         trend |-> Trend(latest_value, first_value),
         status |-> Status(metric, latest_value, target_value)]

\* The exception one pass of the loop raises, or "none": .iloc[-1] of a view
\* without rows; the truth value of a Series when the label names two
\* columns of the view (the Date column selected as a metric).
KpiFails(df, metric) ==
    IF Len(df.rows) = 0 THEN "IndexError"
    ELSE IF ColumnCount(df, metric) > 1 THEN "ValueError"
    ELSE "none"

\* for metric in selected_metrics: ...  The cards shown before the loop ends
\* or an exception escapes it.
KpiLoop(df, sec, sel, tg) ==
    LET bad == {k \in DOMAIN sel : KpiFails(df, sel[k]) # "none"}
        stop == IF bad = {} THEN Len(sel) + 1
                ELSE CHOOSE k \in bad : \A j \in bad : k <= j
    IN  [kpis |-> [k \in 1..(stop - 1) |-> Kpi(df, sec, sel[k], tg)],
         exception |-> IF bad = {} THEN "none" ELSE KpiFails(df, sel[stop])]

\* One script run below the loader with these control values.
Render(sec, tp, sel) ==
    /\ pc = "loaded"
    /\ tp \in WindowSizes
    /\ IsSelection(sel, MetricOptions(sec))
    /\ section' = sec
    /\ time_period' = tp
    /\ selected_metrics' = sel
    /\ IF ~HasColumn(DataDict(sec), Date)
       THEN /\ filtered_df' = NoTable
            /\ kpis' = <<>>
            /\ exception' = "KeyError"
            /\ pc' = "view_crashed"
       ELSE LET df == Filter(sec, tp, sel)
                loop == KpiLoop(df, sec, sel, targets)
            IN  /\ filtered_df' = df
                /\ kpis' = loop.kpis
                /\ exception' = loop.exception
                /\ pc' = IF loop.exception = "none" THEN "rendered" ELSE "view_crashed"
    /\ UNCHANGED <<inputVars, envVars, responses, sheet_reads, env_data, soc_data,
                   gov_data, targets, bound, errors, faults, data_period>>

\* The rest of the run that loaded the data: the controls hold their default
\* values (first category, the whole of env_data, metrics[:3]).
DefaultSelection(sec) ==
    SubSeq(MetricOptions(sec), 1, Min(3, Len(MetricOptions(sec))))
RenderDefault ==
    Render("Environmental", Len(env_data.rows), DefaultSelection("Environmental"))

\* Streamlit runs the script again from the top when the data source changes.
Rerun ==
    /\ pc \in {"crashed", "rendered", "view_crashed"}
    /\ pc' = "start"
    /\ data_source' = "Sample Data"
    /\ uploaded_file' = NoFile
    /\ url' = <<>>
    /\ remote' = RemoteDown
    /\ changes' = 0
    /\ responses' = <<>>
    /\ sheet_reads' = <<>>
    /\ env_data' = NoTable
    /\ soc_data' = NoTable
    /\ gov_data' = NoTable
    /\ targets' = NoTargets
    /\ bound' = {}
    /\ errors' = <<>>
    /\ faults' = <<>>
    /\ exception' = "none"
    /\ data_period' = ""
    /\ section' = "Environmental"
    /\ time_period' = 0
    /\ selected_metrics' = <<>>
    /\ filtered_df' = NoTable
    /\ kpis' = <<>>

Next ==
    \/ LoadSample
    \/ \E file \in ExcelUploads : LoadExcel(file)
    \/ \E file \in CsvUploads : LoadCsv(file)
    \/ \E u \in Urls, r \in Remotes : UrlBegin(u, r)
    \/ UrlFetch
    \/ UrlOpenExcel
    \/ UrlReadEnv
    \/ UrlReadSoc
    \/ UrlReadGov
    \/ UrlReadTargets
    \/ \E r \in Remotes : RemoteChange(r)
    \/ RenderDefault
    \/ Rerun

Spec == Init /\ [][Next]_vars

\* The next interaction: the same data is shown again with new control values.
Rerender ==
    /\ pc \in {"rendered", "view_crashed"}
    /\ pc' = "loaded"
    /\ exception' = "none"
    /\ section' = "Environmental"
    /\ time_period' = 0
    /\ selected_metrics' = <<>>
    /\ filtered_df' = NoTable
    /\ kpis' = <<>>
    /\ UNCHANGED <<inputVars, envVars, responses, sheet_reads, env_data, soc_data,
                   gov_data, targets, bound, errors, faults, data_period>>

\* The files whose views are explored.
ViewExcelUploads ==
    {Workbook(RequiredSheets, 1, TRUE), Workbook(RequiredSheets, 2, TRUE),
     Workbook(RequiredSheets, 1, FALSE)}
ViewCsvUploads == {CsvFile(1), CsvFile(2)}

Loaded(src, file, o) ==
    /\ pc = "loaded"
    /\ data_source = src
    /\ uploaded_file = file
    /\ url = <<>>
    /\ remote = RemoteDown
    /\ changes = 0
    /\ responses = <<>>
    /\ sheet_reads = o.sheet_reads
    /\ env_data = o.env_data
    /\ soc_data = o.soc_data
    /\ gov_data = o.gov_data
    /\ targets = o.targets
    /\ bound = o.bound
    /\ errors = o.errors
    /\ faults = o.faults
    /\ exception = o.exception
    /\ data_period = o.data_period
    /\ section = "Environmental"
    /\ time_period = 0
    /\ selected_metrics = <<>>
    /\ filtered_df = NoTable
    /\ kpis = <<>>

\* The state the loader leaves, for each source explored.
ViewInit ==
    \/ Loaded("Sample Data", NoFile, SampleBranch)
    \/ \E file \in ViewExcelUploads : Loaded("Upload Excel", file, ExcelBranch(file))
    \/ \E file \in ViewCsvUploads : Loaded("Upload CSV", file, CsvBranch(file))

ViewNext ==
    \/ /\ pc = "loaded"
       /\ \E sec \in Range(Sections) :
             \E sel \in Selections(MetricOptions(sec)), tp \in WindowSizes :
                 Render(sec, tp, sel)
    \/ Rerender

ViewSpec == ViewInit /\ [][ViewNext]_vars


(***************************************************************************)
(* Properties of the loader, checked under Spec.                           *)
(***************************************************************************)
LoadEnded == pc \in {"loaded", "crashed"}

IsSyntheticDataset ==
    /\ bound = AllNames
    /\ env_data = SynEnv
    /\ soc_data = SynSoc
    /\ gov_data = SynGov
    /\ targets = SynTargets

\* C1: whatever the source kind and whatever fails while loading it, no
\* exception escapes the load step; a failure ends with a warning shown and
\* env_data, soc_data, gov_data and targets set to the synthetic Dataset.
C1_LoadFailureFallsBack ==
    LoadEnded =>
        /\ exception = "none"
        /\ faults # <<>> => (errors # <<>> /\ IsSyntheticDataset)

\* The table a user-supplied file gives for a category.
GivesCategory(file, cat) ==
    \/ file.kind = "xlsx" /\ cat[1] \in Range(SheetNames(file))
    \/ file.kind = "csv" /\ HasColumn(ReadCsv(file), Date)
CategoryOf(file, cat) ==
    IF file.kind = "xlsx" THEN SheetTable(file, cat[1])
    ELSE SplitByPrefix(ReadCsv(file), cat)

\* The files this load was given: the upload, and every response body.
SourceFiles ==
    {uploaded_file} \cup {responses[i].body : i \in DOMAIN responses}

FromUser(df, cat) ==
    \E file \in SourceFiles : GivesCategory(file, cat) /\ df = CategoryOf(file, cat)

\* C2: after any load the four names are all assigned, and the three tables
\* are all the user's or all synthetic (with the synthetic targets).
C2_AllUserOrAllSynthetic ==
    LoadEnded =>
        /\ bound = AllNames
        /\ \/ IsSyntheticDataset
           \/ /\ FromUser(env_data, Environmental)
              /\ FromUser(soc_data, Social)
              /\ FromUser(gov_data, Governance)

UrlLoadEnded == LoadEnded /\ data_source = "URL" /\ url # <<>>

\* The response is 2xx and its body parses as the URL's suffix says.
GoodResponse(r) ==
    /\ r.up
    /\ r.status \in 200..299
    /\ \/ IsCsvUrl(url) /\ ReadCsvOk(r.body)
       \/ IsExcelUrl(url) /\ OpenExcelOk(r.body)

\* C3: a URL load whose request fails, whose response is not 2xx or does not
\* parse, or whose suffix is unsupported, ends with the synthetic Dataset
\* and a warning; only a 2xx response that parses gives a Dataset built from
\* the body.
C3_UrlFailureFallsBack ==
    (UrlLoadEnded /\ \E i \in DOMAIN responses : ~GoodResponse(responses[i])) =>
        /\ pc = "loaded"
        /\ IsSyntheticDataset
        /\ errors # <<>>

HasPrefix(c, cat) == Len(c) >= 2 /\ c[1] = cat[1] /\ c[2] = "_"
StripPrefix(c) == SubSeq(c, 3, Len(c))
Categories == {Environmental, Social, Governance}

PrefixedCsv(df) ==
    /\ HasColumn(df, Date)
    /\ \A c \in Range(df.columns) : c = Date \/ \E cat \in Categories : HasPrefix(c, cat)

\* C4: for a delimited upload with the columns Date and Environmental_*,
\* Social_*, Governance_*, each category table holds Date and exactly the
\* columns with that category's prefix, named without the prefix, and
\* targets is the synthetic target map.
C4_CsvTablesByPrefix ==
    (/\ LoadEnded
     /\ data_source = "Upload CSV"
     /\ uploaded_file.kind = "csv"
     /\ PrefixedCsv(ReadCsv(uploaded_file))) =>
        /\ pc = "loaded"
        /\ targets = SynTargets
        /\ \A cat \in Categories :
              Range(DataDict(cat[1]).columns) =
                  {Date} \cup {StripPrefix(c) :
                                  c \in {d \in Range(ReadCsv(uploaded_file).columns) :
                                            HasPrefix(d, cat)}}

\* The spreadsheet this load was given, when it was given one and the same
\* throughout: the uploaded workbook, or the workbook every response held.
SpreadsheetGiven(file) ==
    /\ file.kind = "xlsx"
    /\ \/ data_source = "Upload Excel" /\ uploaded_file = file
       \/ /\ data_source = "URL"
          /\ IsExcelUrl(url)
          /\ responses # <<>>
          /\ \A i \in DOMAIN responses : responses[i] = Serving(200, file)

\* C9: a spreadsheet that lacks required sheets is rejected whole: no sheet
\* of it is read, the Dataset is the synthetic one, and a warning names
\* exactly the missing sheets.
C9_MissingSheetsRejected ==
    \A file \in Workbooks :
        (LoadEnded /\ SpreadsheetGiven(file) /\ MissingSheets(SheetNames(file)) # <<>>) =>
            /\ sheet_reads = <<>>
            /\ IsSyntheticDataset
            /\ \E i \in DOMAIN errors :
                  Range(errors[i].names) = Range(MissingSheets(SheetNames(file)))

\* The Dataset a workbook holds.
IsSnapshotOf(file) ==
    /\ file.kind = "xlsx"
    /\ MissingSheets(SheetNames(file)) = <<>>
    /\ TargetsOk(SheetTable(file, "Targets"))
    /\ env_data = SheetTable(file, "Environmental")
    /\ soc_data = SheetTable(file, "Social")
    /\ gov_data = SheetTable(file, "Governance")
    /\ targets = TargetsOf(SheetTable(file, "Targets"))

\* C10: the Dataset a URL load builds from a spreadsheet is the Dataset of
\* one response: it never holds sheets of different versions of the file.
C10_UrlDatasetIsOneSnapshot ==
    (/\ pc = "loaded"
     /\ data_source = "URL"
     /\ IsExcelUrl(url)
     /\ ~IsSyntheticDataset) =>
        \E i \in DOMAIN responses : IsSnapshotOf(responses[i].body)


(***************************************************************************)
(* Properties of the view, checked under ViewSpec.                         *)
(***************************************************************************)
\* The script ran the filter with the control values now in the state.
Filtered == pc \in {"rendered", "view_crashed"} /\ HasColumn(DataDict(section), Date)

\* Row r of the window, counted in the category table.
WindowRow(r) ==
    LET total == Len(DataDict(section).rows)
    IN  total - Min(time_period, total) + r

\* C5: the filtered view has min(windowSize, rows of the selected category)
\* rows, they are the last rows of the category table in their order, and
\* its metric columns are the selected metrics in the order selected.
C5_FilteredViewIsWindow ==
    Filtered =>
        LET table == DataDict(section)
            n == Min(time_period, Len(table.rows))
        IN  /\ time_period \in WindowSizes
            /\ Len(filtered_df.rows) = n
            /\ filtered_df.columns = <<Date>> \o selected_metrics
            /\ \A r \in 1..n :
                  /\ filtered_df.rows[r][1] =
                        table.rows[WindowRow(r)][ColumnIndex(table, Date)]
                  /\ \A k \in DOMAIN selected_metrics :
                        filtered_df.rows[r][k + 1] =
                            table.rows[WindowRow(r)][ColumnIndex(table, selected_metrics[k])]

\* A view of a category with fewer rows than the window asks for, showing
\* two metrics in another order than the table's.
C5_Witness ==
    /\ pc = "rendered"
    /\ section = "Social"
    /\ Len(soc_data.rows) < time_period
    /\ Len(filtered_df.rows) = 2
    /\ Len(selected_metrics) = 2
    /\ ColumnIndex(soc_data, selected_metrics[1]) > ColumnIndex(soc_data, selected_metrics[2])

\* The metric's value in the first and in the last row of the window.
WindowFirst(metric) ==
    DataDict(section).rows[WindowRow(1)][ColumnIndex(DataDict(section), metric)]
WindowLast(metric) ==
    DataDict(section).rows[Len(DataDict(section).rows)][ColumnIndex(DataDict(section), metric)]

\* C6: for every filtered view the KPI loop ends with one KPI per selected
\* metric, in view order; current is the value in the window's last row and
\* first the value in the window's first row; the percent change is
\* (current - first) / first * 100 when first # 0 and exactly 0, with no
\* fault, when first = 0.
C6_KpiPerMetric ==
    Filtered =>
        /\ pc = "rendered"
        /\ exception = "none"
        /\ Len(kpis) = Len(selected_metrics)
        /\ \A k \in DOMAIN kpis :
              LET m == selected_metrics[k]
                  current == WindowLast(m)
                  first == WindowFirst(m)
              IN  /\ kpis[k].metric = m
                  /\ kpis[k].value = current
                  /\ kpis[k].trend.den # 0
                  /\ first # 0 =>
                        /\ kpis[k].trend.num = (current - first) * 100
                        /\ kpis[k].trend.den = first
                  /\ first = 0 => kpis[k].trend.num = 0

PolarityMarkers == {"Emissions", "Usage", "Violations"}
NamesMarker(metric) == \E i \in DOMAIN metric : metric[i] \in PolarityMarkers

\* C7: a metric whose name contains "Emissions", "Usage" or "Violations" is
\* met exactly when current <= target; any other metric exactly when
\* current >= target.
C7_StatusByPolarity ==
    \A k \in DOMAIN kpis :
        /\ NamesMarker(kpis[k].metric) =>
              (kpis[k].status = "met" <=> kpis[k].value <= kpis[k].target)
        /\ ~NamesMarker(kpis[k].metric) =>
              (kpis[k].status = "met" <=> kpis[k].value >= kpis[k].target)

\* Two cards above their targets: a lower-is-better metric that is not met
\* and a higher-is-better metric that is met.
C7_Witness ==
    /\ pc = "rendered"
    /\ \E k \in DOMAIN kpis :
          /\ Contains(kpis[k].metric, <<"Usage">>)
          /\ kpis[k].value > kpis[k].target
          /\ kpis[k].status = "not met"
    /\ \E k \in DOMAIN kpis :
          /\ ~NamesMarker(kpis[k].metric)
          /\ kpis[k].value > kpis[k].target
          /\ kpis[k].status = "met"

\* C8: a metric without an entry in its category's target map gets the
\* target 0 and no goal status: it is not reported as met or not met.
C8_UnsetGoalNotReported ==
    \A k \in DOMAIN kpis :
        (section \notin DOMAIN targets \/ kpis[k].metric \notin DOMAIN targets[section]) =>
            /\ kpis[k].target = 0
            /\ kpis[k].status \notin {"met", "not met"}

====
